---- MODULE Spec2Model ----
(***************************************************************************)
(* Model of test-app/index.js.  The file holds two variants of the demo    *)
(* application, one after the other:                                       *)
(*   "v1" (lines 1-399)   two app.use middlewares assign a trace id, start *)
(*                        a timer and record metrics in a res 'finish'     *)
(*                        listener; eight GET routes, seven of which       *)
(*                        suspend in simulateWork;                         *)
(*   "v2" (lines 400-492) no middleware; four GET routes, three of which   *)
(*                        time and count themselves inline, synchronously. *)
(* Each behaviour of the model runs one of the two (variable app).         *)
(*                                                                         *)
(* JavaScript runs every callback to completion, so one action is one      *)
(* turn of the event loop: the middleware chain, a handler up to its       *)
(* await, a handler's continuation, a 'finish' listener.  The environment  *)
(* (Express, the HTTP socket, the timers) is the choice of which action    *)
(* comes next, plus Abort: the client dropping the connection, after which *)
(* 'finish' is not emitted.  Requests are GET requests for the routes the   *)
(* variant defines.  Wall-clock values (timestamps, durations) are not     *)
(* modelled; the histogram is the bag of label sets observed.              *)
(***************************************************************************)
EXTENDS Integers, FiniteSets, Sequences, Bags, TLC

\* Number of requests a behaviour holds.
MaxReq == 2

Req == 1..MaxReq

Undefined == "undefined"

\* Sample results of crypto.randomBytes(12).toString('hex').
HexStrings == <<"0a1b2c3d4e5f0a1b2c3d4e5f", "ffeeddccbbaa998877665544">>

TraceIds == {HexStrings[i] : i \in DOMAIN HexStrings}

\* Sample values of req.query.sku: absent, empty, a product.
SkuParams == {Undefined, "", "WH001"}

VARIABLES
    app,              \* "v1" or "v2": the variant that is running
    path,             \* req.path
    method,           \* req.method
    query,            \* req.query.sku
    traceId,          \* req.traceId
    endTimer,         \* req.endTimer: "unset", "running", "observed"
    listeners,        \* whether a 'finish' listener is registered on res
    pc,               \* position of the request's processing
    conn,             \* "none", "open", "finished" ('finish'), "aborted"
    res,              \* the response: status code, ended, what was sent
    scrape,           \* the registry snapshot a /metrics response carries
    seen,             \* history: the requests finished at that read
    requestCount,     \* app_requests_total: bag of label sets
    cartActionCount,  \* ecomm_cart_actions_total: bag of label sets
    responseTime,     \* app_response_time_seconds: bag of label sets observed
    stdout            \* the lines written by console.log (a bag: unordered)

reqVars == <<path, method, query, traceId, endTimer, listeners>>
metricVars == <<requestCount, cartActionCount, responseTime>>
vars == <<app, path, method, query, traceId, endTimer, listeners, pc, conn,
          res, scrape, seen, requestCount, cartActionCount, responseTime,
          stdout>>

NoLocation == [pathname |-> Undefined, param |-> Undefined]

\* A fresh http.ServerResponse: statusCode 200, nothing written.
NewResponse ==
    [statusCode |-> 200, ended |-> FALSE, type |-> "none",
     trace_id |-> Undefined, status |-> Undefined, location |-> NoLocation]

EmptyRegistry ==
    [requests |-> EmptyBag, cart |-> EmptyBag, time |-> EmptyBag]

\* Counter.inc(labels) and the histogram's observe(labels): one more sample
\* in the series of that label set.
Inc(metric, labels) == metric (+) SetToBag({labels})

\* Mutant of Metrics: requestCount was never registered on the registry.
Metrics_Unregistered ==
    [requests |-> EmptyBag, cart |-> cartActionCount, time |-> responseTime]

\* register.metrics(): the exposition of the three registered series.
Metrics ==
    [requests |-> requestCount, cart |-> cartActionCount, time |-> responseTime]

\* await register.metrics(): the body of the /metrics response of r.
Scrape(r) ==
    /\ scrape' = [scrape EXCEPT ![r] = Metrics]
    /\ seen' = [seen EXCEPT ![r] = {x \in Req : conn[x] = "finished"}]

Init ==
    /\ app \in {"v1", "v2"}
    /\ path = [r \in Req |-> Undefined]
    /\ method = [r \in Req |-> Undefined]
    /\ query = [r \in Req |-> Undefined]
    /\ traceId = [r \in Req |-> Undefined]
    /\ endTimer = [r \in Req |-> "unset"]
    /\ listeners = [r \in Req |-> FALSE]
    /\ pc = [r \in Req |-> "new"]
    /\ conn = [r \in Req |-> "none"]
    /\ res = [r \in Req |-> NewResponse]
    /\ scrape = [r \in Req |-> EmptyRegistry]
    /\ seen = [r \in Req |-> {}]
    /\ requestCount = EmptyBag
    /\ cartActionCount = EmptyBag
    /\ responseTime = EmptyBag
    /\ stdout = EmptyBag

\* The identifiers drawn so far.
Drawn == {traceId[r] : r \in Req} \ {Undefined}

\* crypto.randomBytes(12).toString('hex'): nothing in the code keeps two
\* requests from drawing the same value.  The values are opaque, so up to
\* renaming a draw either repeats one drawn before or is the first unused
\* sample.
randomBytes ==
    Drawn \cup
    {HexStrings[i] : i \in {j \in DOMAIN HexStrings :
                               /\ HexStrings[j] \notin Drawn
                               /\ \A k \in 1..(j - 1) : HexStrings[k] \in Drawn}}

\* The server accepts requests one at a time: r arrives after r - 1 has.
Arrives(r) ==
    /\ pc[r] = "new"
    /\ IF r = 1 THEN TRUE ELSE pc[r - 1] # "new"

(***************************************************************************)
(* v1: middleware and helpers                                              *)
(***************************************************************************)

\* Mutant of ReqOf: the trace id is kept in one variable of the module, which
\* holds that of the request that arrived last.
ReqOf_Latest(r) ==
    LET last == CHOOSE x \in Req :
                    /\ conn[x] # "none"
                    /\ \A y \in Req : conn[y] # "none" => y <= x
    IN  [traceId |-> traceId[last], path |-> path[r], method |-> method[r],
         r |-> r]

\* What log() reads of the request object it is given.  The field r is not
\* printed: it records whose callback wrote the line.
ReqOf(r) ==
    [traceId |-> traceId[r], path |-> path[r], method |-> method[r], r |-> r]

\* log(level, message, req): the JSON line, without its timestamp.
LogEntry(level, message, req) ==
    [level |-> level, trace_id |-> req.traceId, route |-> req.path,
     method |-> req.method, message |-> message, req |-> req.r]

log(level, message, req) ==
    stdout' = stdout (+) SetToBag({LogEntry(level, message, req)})

\* First middleware: req.traceId and req.endTimer.
TraceMiddleware(r, id) ==
    /\ traceId' = [traceId EXCEPT ![r] = id]
    /\ endTimer' = [endTimer EXCEPT ![r] = "running"]

\* Second middleware: res.on('finish', ...).
FinishMiddleware(r) ==
    listeners' = [listeners EXCEPT ![r] = TRUE]

\* A GET request for route arrives and passes both middlewares; its route
\* handler starts in the same turn (next() is a plain call).
Dispatched(r, route, id) ==
    /\ app = "v1"
    /\ Arrives(r)
    /\ path' = [path EXCEPT ![r] = route]
    /\ method' = [method EXCEPT ![r] = "GET"]
    /\ conn' = [conn EXCEPT ![r] = "open"]
    /\ TraceMiddleware(r, id)
    /\ FinishMiddleware(r)

\* Mutant of NewReq: the handler's first line is written before the trace
\* id is on the request.
NewReq_NoTrace(r, route, id) ==
    [traceId |-> Undefined, path |-> route, method |-> "GET", r |-> r]

\* The request object as the handler sees it in that first turn.
NewReq(r, route, id) ==
    [traceId |-> id, path |-> route, method |-> "GET", r |-> r]

CompletedMessage(statusCode) ==
    <<"Request completed with status", ToString(statusCode)>>

\* Mutant of FinishCallback: req.endTimer is not called.
FinishCallback_NoObserve(r) ==
    /\ requestCount' =
           Inc(requestCount, [route |-> path[r], method |-> method[r],
                              status_code |-> res[r].statusCode])
    /\ UNCHANGED <<responseTime, endTimer>>
    /\ log("DEBUG", CompletedMessage(res[r].statusCode), ReqOf(r))

\* The 'finish' listener of the second middleware.
FinishCallback(r) ==
    /\ requestCount' =
           Inc(requestCount, [route |-> path[r], method |-> method[r],
                              status_code |-> res[r].statusCode])
    /\ responseTime' =
           Inc(responseTime, [route |-> path[r], method |-> method[r]])
    /\ endTimer' = [endTimer EXCEPT ![r] = "observed"]
    /\ log("DEBUG", CompletedMessage(res[r].statusCode), ReqOf(r))

\* Mutant of Finishes: the listener is bound to 'close' as well, which an
\* aborted connection emits.
Finishes_OnClose(r) ==
    /\ conn[r] \in {"open", "aborted"}
    /\ res[r].ended

\* 'finish' is emitted once, after the response was ended, on a connection
\* that is still there.
Finishes(r) ==
    /\ conn[r] = "open"
    /\ res[r].ended

\* The response has been handed to the network: res emits 'finish'.
Finish(r) ==
    /\ Finishes(r)
    /\ conn' = [conn EXCEPT ![r] = "finished"]
    /\ IF listeners[r]
       THEN FinishCallback(r)
       ELSE UNCHANGED <<requestCount, responseTime, endTimer, stdout>>
    /\ UNCHANGED <<app, path, method, query, traceId, listeners, pc, res,
                   scrape, seen, cartActionCount>>

\* The client drops the connection before 'finish'.  Nothing cancels the
\* handler: a pending timer or promise still runs its continuation.
Abort(r) ==
    /\ conn[r] = "open"
    /\ conn' = [conn EXCEPT ![r] = "aborted"]
    /\ UNCHANGED <<app, reqVars, pc, res, scrape, seen, metricVars, stdout>>

\* await simulateWork(minMs, maxMs): the handler suspends until the timer
\* fires, after a delay drawn from [minMs, maxMs).
simulateWork(r) ==
    pc' = [pc EXCEPT ![r] = "waiting"]

\* Mutant of Resumed: an aborted connection clears the timer.
Resumed_IfConnected(r, route) ==
    /\ app = "v1"
    /\ pc[r] = "waiting"
    /\ path[r] = route
    /\ conn[r] = "open"

\* The timer of simulateWork fired: the handler of r resumes.
Resumed(r, route) ==
    /\ app = "v1"
    /\ pc[r] = "waiting"
    /\ path[r] = route

\* res.send(html), res.json(obj), res.end(text): the response is ended.
Send(r, type, statusCode, trace, status) ==
    res' = [res EXCEPT ![r] =
               [statusCode |-> statusCode, ended |-> TRUE, type |-> type,
                trace_id |-> trace, status |-> status,
                location |-> NoLocation]]

(***************************************************************************)
(* v1: the pages                                                           *)
(***************************************************************************)

\* A page handler up to its await: one INFO line, then simulateWork.
PageStart(r, route, id, message) ==
    /\ Dispatched(r, route, id)
    /\ log("INFO", <<message, "">>, NewReq(r, route, id))
    /\ simulateWork(r)
    /\ UNCHANGED <<app, query, res, scrape, seen, metricVars>>

\* After the await: res.send of a page that shows req.traceId.
PageSend(r, route) ==
    /\ Resumed(r, route)
    /\ Send(r, "html", 200, traceId[r], Undefined)
    /\ pc' = [pc EXCEPT ![r] = "done"]
    /\ UNCHANGED <<app, reqVars, conn, scrape, seen, metricVars, stdout>>

Home(r, id) == PageStart(r, "/", id, "E-commerce Home/Product page accessed")

HomeSend(r) == PageSend(r, "/")

Products(r, id) ==
    PageStart(r, "/products", id, "Products search service accessed")

ProductsSend(r) == PageSend(r, "/products")

Cart(r, id) == PageStart(r, "/cart", id, "Cart session data accessed")

CartSend(r) == PageSend(r, "/cart")

Account(r, id) ==
    PageStart(r, "/account", id, "User profile service accessed")

AccountSend(r) == PageSend(r, "/account")

(***************************************************************************)
(* v1: /add-to-cart, /status, /simulate-error, /metrics                    *)
(***************************************************************************)

\* Mutant of SkuOf: req.query.sku ?? 'UNKNOWN'.
SkuOf_Nullish(q) == IF q = Undefined THEN "UNKNOWN" ELSE q

\* const sku = req.query.sku || 'UNKNOWN': an absent or empty parameter is
\* falsy.
SkuOf(q) == IF q = Undefined \/ q = "" THEN "UNKNOWN" ELSE q

\* /add-to-cart up to its await; q is the sku parameter of the request.
AddToCart(r, id, q) ==
    /\ Dispatched(r, "/add-to-cart", id)
    /\ query' = [query EXCEPT ![r] = q]
    /\ log("INFO", <<"Starting cart service transaction for SKU:", SkuOf(q)>>,
           NewReq(r, "/add-to-cart", id))
    /\ simulateWork(r)
    /\ UNCHANGED <<app, res, scrape, seen, metricVars>>

\* res.redirect('/?message=' + encodeURIComponent(...)): 302 Found.
Redirect(r) ==
    res' = [res EXCEPT ![r] =
               [statusCode |-> 302, ended |-> TRUE, type |-> "redirect",
                trace_id |-> Undefined, status |-> Undefined,
                location |-> [pathname |-> "/", param |-> "message"]]]

\* Mutant of CartInc: the cart action is counted only while the client is
\* still connected.
CartInc_IfConnected(r) ==
    cartActionCount' =
        IF conn[r] = "open"
        THEN Inc(cartActionCount, [product_sku |-> SkuOf(query[r])])
        ELSE cartActionCount

\* The business counter of /add-to-cart.
CartInc(r) ==
    cartActionCount' =
        Inc(cartActionCount, [product_sku |-> SkuOf(query[r])])

\* /add-to-cart after the await: count, log, redirect.
AddToCartSend(r) ==
    /\ Resumed(r, "/add-to-cart")
    /\ CartInc(r)
    /\ log("SUCCESS",
           <<"successfully added to shopping cart: SKU", SkuOf(query[r])>>,
           ReqOf(r))
    /\ Redirect(r)
    /\ pc' = [pc EXCEPT ![r] = "done"]
    /\ UNCHANGED <<app, reqVars, conn, scrape, seen, requestCount,
                   responseTime>>

Status(r, id) ==
    PageStart(r, "/status", id, "Health status check initiated.")

\* /status after the await; healthy is Math.random() > 0.1.
StatusSend(r, healthy) ==
    LET status == IF healthy THEN "healthy" ELSE "unhealthy" IN
    /\ Resumed(r, "/status")
    /\ log("INFO", <<"Health status reported:", status>>, ReqOf(r))
    /\ Send(r, "json", 200, traceId[r], status)
    /\ pc' = [pc EXCEPT ![r] = "done"]
    /\ UNCHANGED <<app, reqVars, conn, scrape, seen, metricVars>>

\* /simulate-error up to its await: the ERROR line comes first.
SimulateError(r, id) ==
    /\ Dispatched(r, "/simulate-error", id)
    /\ log("ERROR", <<"Simulated application error occurred", "">>,
           NewReq(r, "/simulate-error", id))
    /\ simulateWork(r)
    /\ UNCHANGED <<app, query, res, scrape, seen, metricVars>>

\* Mutant of SimulateErrorSend: res.json without res.status(500).
SimulateErrorSend_200(r) ==
    /\ app = "v1"
    /\ pc[r] = "waiting"
    /\ path[r] = "/simulate-error"
    /\ res' = [res EXCEPT ![r] =
                  [statusCode |-> 200, ended |-> TRUE, type |-> "json",
                   trace_id |-> traceId[r], status |-> Undefined,
                   location |-> NoLocation]]
    /\ pc' = [pc EXCEPT ![r] = "done"]
    /\ UNCHANGED <<app, reqVars, conn, scrape, seen, metricVars, stdout>>

\* /simulate-error after the await: res.status(500).json({..., trace_id}).
SimulateErrorSend(r) ==
    /\ Resumed(r, "/simulate-error")
    /\ Send(r, "json", 500, traceId[r], Undefined)
    /\ pc' = [pc EXCEPT ![r] = "done"]
    /\ UNCHANGED <<app, reqVars, conn, scrape, seen, metricVars, stdout>>

\* /metrics up to its await of register.metrics().
MetricsStart(r, id) ==
    /\ Dispatched(r, "/metrics", id)
    /\ log("DEBUG", <<"Metrics endpoint accessed.", "">>,
           NewReq(r, "/metrics", id))
    /\ pc' = [pc EXCEPT ![r] = "awaiting"]
    /\ UNCHANGED <<app, query, res, scrape, seen, metricVars>>

\* register.metrics() resolved: res.end(exposition), read from the registry
\* in this turn.
MetricsSend(r) ==
    /\ app = "v1"
    /\ pc[r] = "awaiting"
    /\ Scrape(r)
    /\ Send(r, "metrics", 200, Undefined, Undefined)
    /\ pc' = [pc EXCEPT ![r] = "done"]
    /\ UNCHANGED <<app, reqVars, conn, metricVars, stdout>>

\* register.metrics() rejected: the catch block.
MetricsFail(r) ==
    /\ app = "v1"
    /\ pc[r] = "awaiting"
    /\ log("ERROR", <<"Metrics fetch failed:", "err.message">>, ReqOf(r))
    /\ Send(r, "text", 500, Undefined, Undefined)
    /\ pc' = [pc EXCEPT ![r] = "done"]
    /\ UNCHANGED <<app, reqVars, conn, scrape, seen, metricVars>>

(***************************************************************************)
(* v2: no middleware; the handlers count and time themselves               *)
(***************************************************************************)

\* log(level, message) of v2: no trace id, route or method.
log2(level, message) ==
    stdout' = stdout (+) SetToBag({[level |-> level, message |-> message]})

\* A request reaches a route handler of v2.
Dispatched2(r, route) ==
    /\ app = "v2"
    /\ Arrives(r)
    /\ path' = [path EXCEPT ![r] = route]
    /\ method' = [method EXCEPT ![r] = "GET"]
    /\ conn' = [conn EXCEPT ![r] = "open"]

\* const end = responseTime.startTimer(); requestCount.inc({route});
\* ...; end({route}): all in the handler's one turn.
Instrument2(route) ==
    /\ requestCount' = Inc(requestCount, [route |-> route])
    /\ responseTime' = Inc(responseTime, [route |-> route])

Home2(r) ==
    /\ Dispatched2(r, "/")
    /\ Instrument2("/")
    /\ log2("INFO", <<"Home route accessed", "">>)
    /\ Send(r, "html", 200, Undefined, Undefined)
    /\ pc' = [pc EXCEPT ![r] = "done"]
    /\ UNCHANGED <<app, query, traceId, endTimer, listeners, scrape, seen,
                   cartActionCount>>

\* healthy is Math.random() > 0.2.
Status2(r, healthy) ==
    LET status == IF healthy THEN "healthy" ELSE "unhealthy" IN
    /\ Dispatched2(r, "/status")
    /\ Instrument2("/status")
    /\ log2("INFO", <<"Health status checked:", status>>)
    /\ Send(r, "json", 200, Undefined, status)
    /\ pc' = [pc EXCEPT ![r] = "done"]
    /\ UNCHANGED <<app, query, traceId, endTimer, listeners, scrape, seen,
                   cartActionCount>>

SimulateError2(r) ==
    /\ Dispatched2(r, "/simulate-error")
    /\ Instrument2("/simulate-error")
    /\ log2("ERROR", <<"Simulated application error occurred!", "">>)
    /\ Send(r, "json", 500, Undefined, Undefined)
    /\ pc' = [pc EXCEPT ![r] = "done"]
    /\ UNCHANGED <<app, query, traceId, endTimer, listeners, scrape, seen,
                   cartActionCount>>

\* /metrics of v2 up to its await: no log line, no counter, no timer.
MetricsStart2(r) ==
    /\ Dispatched2(r, "/metrics")
    /\ pc' = [pc EXCEPT ![r] = "awaiting"]
    /\ UNCHANGED <<app, query, traceId, endTimer, listeners, res, scrape, seen,
                   metricVars, stdout>>

MetricsSend2(r) ==
    /\ app = "v2"
    /\ pc[r] = "awaiting"
    /\ Scrape(r)
    /\ Send(r, "metrics", 200, Undefined, Undefined)
    /\ pc' = [pc EXCEPT ![r] = "done"]
    /\ UNCHANGED <<app, reqVars, conn, metricVars, stdout>>

\* res.status(500).end(err): the status is set, then end() throws on a
\* chunk that is an Error object (ERR_INVALID_ARG_TYPE).  Nothing is sent.
EndWithError(r) ==
    res' = [res EXCEPT ![r].statusCode = 500]

\* register.metrics() rejected, v2: the catch block logs, then throws out of
\* the async handler; the response is never ended.
MetricsFail2(r) ==
    /\ app = "v2"
    /\ pc[r] = "awaiting"
    /\ log2("ERROR", <<"Metrics fetch failed:", "err.message">>)
    /\ EndWithError(r)
    /\ pc' = [pc EXCEPT ![r] = "faulted"]
    /\ UNCHANGED <<app, reqVars, conn, scrape, seen, metricVars>>

\* One turn of the event loop: a request arrives and its handler starts, a
\* suspended handler resumes, a response finishes, a client goes away.
Next ==
    \E r \in Req :
        \/ Arrives(r) /\ \E id \in randomBytes :
              Home(r, id)
        \/ Arrives(r) /\ \E id \in randomBytes, q \in SkuParams :
              AddToCart(r, id, q)
        \/ Arrives(r) /\ \E id \in randomBytes :
              Products(r, id)
        \/ Arrives(r) /\ \E id \in randomBytes :
              Cart(r, id)
        \/ Arrives(r) /\ \E id \in randomBytes :
              Account(r, id)
        \/ Arrives(r) /\ \E id \in randomBytes :
              Status(r, id)
        \/ Arrives(r) /\ \E id \in randomBytes :
              SimulateError(r, id)
        \/ Arrives(r) /\ \E id \in randomBytes :
              MetricsStart(r, id)
        \/ Home2(r)
        \/ \E healthy \in BOOLEAN : Status2(r, healthy)
        \/ SimulateError2(r)
        \/ MetricsStart2(r)
        \/ HomeSend(r)
        \/ AddToCartSend(r)
        \/ ProductsSend(r)
        \/ CartSend(r)
        \/ AccountSend(r)
        \/ \E healthy \in BOOLEAN : StatusSend(r, healthy)
        \/ SimulateErrorSend(r)
        \/ MetricsSend(r)
        \/ MetricsFail(r)
        \/ MetricsSend2(r)
        \/ MetricsFail2(r)
        \/ Finish(r)
        \/ Abort(r)

Spec == Init /\ [][Next]_vars

\* The continuation of the handler of r: its timer fired or its promise
\* settled.
Continue(r) ==
    \/ HomeSend(r)
    \/ AddToCartSend(r)
    \/ ProductsSend(r)
    \/ CartSend(r)
    \/ AccountSend(r)
    \/ \E healthy \in BOOLEAN : StatusSend(r, healthy)
    \/ SimulateErrorSend(r)
    \/ MetricsSend(r)
    \/ MetricsFail(r)
    \/ MetricsSend2(r)
    \/ MetricsFail2(r)

\* The event loop runs every callback that is ready: a timer that expired,
\* a promise that settled, a 'finish' that is due.
FairSpec ==
    /\ Spec
    /\ \A r \in Req : WF_vars(Continue(r)) /\ WF_vars(Finish(r))

(***************************************************************************)
(* Vocabulary of the properties                                            *)
(***************************************************************************)

\* The instrumentation lifecycle of a request.  CREATED, between the
\* middleware and the handler, lies inside the request's first turn.
Lifecycle(r) ==
    CASE conn[r] = "none" -> "NEW"
      [] conn[r] = "open" -> "IN_FLIGHT"
      [] conn[r] = "finished" -> "COMPLETED"
      [] conn[r] = "aborted" -> "ABANDONED"

Terminal(r) == Lifecycle(r) \in {"COMPLETED", "ABANDONED"}

Finished == {r \in Req : conn[r] = "finished"}

\* The request whose callback ran in this step.
Acts(r) == pc'[r] # pc[r] \/ conn'[r] # conn[r]

\* The number of samples of the series in S.
Samples(metric, S) ==
    BagCardinality([s \in S \cap BagToSet(metric) |-> metric[s]])

\* The samples of app_requests_total{route=...}, over all other labels.
RouteTotal(metric, route) ==
    Samples(metric, {s \in BagToSet(metric) : s.route = route})

IsCompletion(e) ==
    e.level = "DEBUG" /\ e.message[1] = "Request completed with status"

\* The completion lines written for request r (v1).
CompletionLines(r) ==
    {e \in BagToSet(stdout) : IsCompletion(e) /\ e.req = r}

\* The lines written for request r (v1).
LinesOf(r) == {e \in BagToSet(stdout) : e.req = r}

CounterLabels(r) ==
    [route |-> path[r], method |-> method[r],
     status_code |-> res[r].statusCode]

TimerLabels(r) == [route |-> path[r], method |-> method[r]]

\* v2: the requests whose handler counted and timed them.
Counted2 == {r \in Req : conn[r] # "none" /\ path[r] # "/metrics"}

(***************************************************************************)
(* C1                                                                      *)
(***************************************************************************)

LegalSteps ==
    {<<"NEW", "IN_FLIGHT">>, <<"IN_FLIGHT", "COMPLETED">>,
     <<"IN_FLIGHT", "ABANDONED">>}

\* The lifecycle part of C2, of one step: only legal transitions, and the
\* request that completes had its trace id assigned and its timer started.
LifecycleStep(r) ==
    /\ Lifecycle(r)' # Lifecycle(r) =>
          <<Lifecycle(r), Lifecycle(r)'>> \in LegalSteps
    /\ Lifecycle(r)' = "COMPLETED" /\ Lifecycle(r) # "COMPLETED" =>
          /\ traceId[r] \in TraceIds
          /\ endTimer[r] = "running"
          /\ endTimer'[r] = "observed"
    /\ endTimer[r] = "observed" => endTimer'[r] = "observed"

\* C2 as stated: the lifecycle is NEW -> (CREATED ->) IN_FLIGHT ->
\* COMPLETED | ABANDONED, begin before complete, complete at most once, and
\* a callback of a request in a terminal state writes no line and records no
\* metric.
C2_Original ==
    [][app = "v1" =>
          \A r \in Req :
             /\ LifecycleStep(r)
             /\ Terminal(r) /\ Acts(r) =>
                   /\ stdout' = stdout
                   /\ metricVars' = metricVars]_vars

\* C2, amended: as stated, except that what a request in a terminal state
\* no longer emits is the middleware's telemetry (counter increment,
\* duration observation, completion line); the handler of an abandoned
\* request still resumes, and writes its own lines and counts its cart
\* action.
C2_Lifecycle ==
    [][app = "v1" =>
          \A r \in Req :
             /\ LifecycleStep(r)
             /\ Terminal(r) /\ Acts(r) =>
                   /\ requestCount' = requestCount
                   /\ responseTime' = responseTime
                   /\ endTimer'[r] = endTimer[r]
                   /\ \A e \in BagToSet(stdout') :
                         IsCompletion(e) =>
                             CopiesIn(e, stdout') = CopiesIn(e, stdout)]_vars

\* An abandoned request whose handler went on to the end, beside a
\* completed one.
C2_Witness ==
    /\ app = "v1"
    /\ \E r, x \in Req :
          /\ Lifecycle(r) = "ABANDONED" /\ pc[r] = "done"
          /\ path[r] = "/add-to-cart" /\ cartActionCount # EmptyBag
          /\ Lifecycle(x) = "COMPLETED" /\ endTimer[x] = "observed"

(***************************************************************************)
(* C3                                                                      *)
(***************************************************************************)

Entered == {r \in Req : conn[r] # "none"}

Errors == {r \in Entered : path[r] = "/simulate-error"}

Series500 ==
    [route |-> "/simulate-error", method |-> "GET", status_code |-> 500]

AddsToCart(r) ==
    path[r] = "/add-to-cart" /\ pc[r] = "waiting" /\ pc'[r] = "done"

RedirectsHome(r) ==
    /\ res'[r].type = "redirect"
    /\ res'[r].statusCode = 302
    /\ res'[r].location = [pathname |-> "/", param |-> "message"]

\* C5 as stated: the request is redirected to /?message=..., and the series
\* product_sku=S, or UNKNOWN without a sku parameter, gains one sample and
\* no other series changes.
C5_Original ==
    [][\A r \in Req :
          AddsToCart(r) =>
             /\ RedirectsHome(r)
             /\ cartActionCount' =
                   cartActionCount (+)
                   SetToBag({[product_sku |->
                                 IF query[r] = Undefined
                                 THEN "UNKNOWN" ELSE query[r]]})]_vars

\* C5, amended: the series is UNKNOWN when the sku parameter is absent or
\* empty, and S for a non-empty S; the counter changes in no other step.
C5_AddToCart ==
    [][/\ \A r \in Req :
             AddsToCart(r) =>
                /\ RedirectsHome(r)
                /\ cartActionCount' =
                      cartActionCount (+)
                      SetToBag({[product_sku |->
                                    IF query[r] \in {Undefined, ""}
                                    THEN "UNKNOWN" ELSE query[r]]})
       /\ cartActionCount' # cartActionCount =>
             \E r \in Req : AddsToCart(r)]_vars

\* Both series hold a sample: one request came with sku=WH001, one with an
\* empty sku.
C5_Witness ==
    /\ \E r, x \in Req : query[r] = "WH001" /\ query[x] = "" /\ pc[x] = "done"
    /\ CopiesIn([product_sku |-> "WH001"], cartActionCount) = 1
    /\ CopiesIn([product_sku |-> "UNKNOWN"], cartActionCount) = 1

(***************************************************************************)
(* C6                                                                      *)
(***************************************************************************)

\* C6 (v1): the counter of route / in a /metrics body is the number of
\* requests to / whose 'finish' had been emitted when the registry was read;
\* so it is at least 1 after one such request.
C6_Reflects ==
    app = "v1" =>
        \A r \in Req :
           res[r].type = "metrics" =>
              RouteTotal(scrape[r].requests, "/") =
                  Cardinality({x \in seen[r] : path[x] = "/"})

\* A /metrics body that reports the one request to / that had finished.
C6_Witness ==
    /\ app = "v1"
    /\ \E r \in Req :
          /\ res[r].type = "metrics"
          /\ \E x \in seen[r] : path[x] = "/"
          /\ RouteTotal(scrape[r].requests, "/") = 1

(***************************************************************************)
(* C7                                                                      *)
(***************************************************************************)

\* The handler of /metrics went through its catch block.
ExportFailed(r) ==
    /\ path[r] = "/metrics"
    /\ pc[r] \in {"done", "faulted"}
    /\ res[r].type # "metrics"

\* C7 as stated: a failed export is logged at ERROR and answered with a 500
\* and a short text body, and the request, once finished, is counted with
\* status_code 500 and timed once.
C7_Original ==
    \A r \in Req :
       ExportFailed(r) =>
          /\ \E e \in BagToSet(stdout) : e.level = "ERROR"
          /\ res[r].ended
          /\ res[r].statusCode = 500
          /\ res[r].type = "text"
          /\ r \in Finished =>
                /\ RouteTotal(requestCount, "/metrics") >= 1
                /\ RouteTotal(responseTime, "/metrics") >= 1

(***************************************************************************)
(* C8                                                                      *)
(***************************************************************************)

Completions == {e \in BagToSet(stdout) : IsCompletion(e)}

\* Each completion line carries the context of the request it was written
\* for.
OwnContext ==
    \A e \in Completions :
       /\ e.trace_id = traceId[e.req]
       /\ e.route = path[e.req]
       /\ e.method = method[e.req]

CartPending ==
    {r \in Req : path[r] = "/add-to-cart" /\ pc[r] = "done"
                    /\ conn[r] # "finished"}

====
